---- MODULE Spec2Model ----
(***************************************************************************)
(* Model of the resilient chat request pipeline and of the security       *)
(* block state of the TeamSquare front end:                               *)
(*   - lib/api-config.ts            apiCall, chatApiCall                   *)
(*   - app/api/chat/route.ts        POST, tryFallbackAPI                   *)
(*   - app/page.tsx                 Home (handleSend, handleSendMessage)   *)
(*   - app/api/admin-security       GET, POST, PUT, DELETE on systemState  *)
(*   - app/api/cybersecurity/analyze POST, simulateAnalysis,               *)
(*                                  calculateThreatLevel                   *)
(*   - app/chat/page.tsx            Home (handleSend, checkConnection)     *)
(*   - app/admin-security/page.tsx  AdminSecurityPage (loadSecurityData,   *)
(*                                  auto-refresh effect)                   *)
(* Handlers are the operations of the model: the environment may invoke a  *)
(* handler in any state and the handler's own conditions decide what it    *)
(* does.  Remote parties (the backend, the secondary endpoint, the Python  *)
(* server) answer nondeterministically.                                    *)
(***************************************************************************)
EXTENDS Integers, Sequences, FiniteSets, TLC

\* ------------------------------------------------------------------ bounds
MaxRetries == 3
MaxMessages == 5
MaxAlerts == 4
MaxProbes == 2
MaxLoads == 3

\* --------------------------------------------------------- program constants
DefaultRetries == 2

VARIABLES
  \* lib/api-config.ts : one call of apiCall / chatApiCall
  apiPc, apiCaller, apiMessage, apiRetries, attempt, lastError, signalAborted,
  fetchCalls, netRequests, waits, response, chatResult, tierLog, apiThrew,
  lastReply, secondaryReply,
  \* app/api/chat/route.ts : one POST request
  routePc, routeBody, routeLog, routeResp,
  \* app/page.tsx : Home component state and the running handleSend
  messages, input, isLoading, isSystemBlocked, securityAlerts, threatLevel,
  isAnalyzing, sendPc, sendInput, sendBlocked, lastSend,
  chatRequests, securityAnalysis,
  \* app/api/admin-security/route.ts : module state and last exchange
  systemState, mockAlerts, userActivities, adminResp,
  \* app/api/cybersecurity/analyze/route.ts : one POST request, and one call
  \* of calculateThreatLevel
  analyzePc, analyzeReq, analyzeResp, threatResults, threatVerdict,
  \* app/chat/page.tsx : Home component state, the health probes in flight and
  \* the reachability of the primary backend and of the secondary endpoint
  chatMessages, chatInput, chatIsLoading, chatLastSend, connectionStatus,
  showConnectionAlert, mounted, probes, primaryUp, secondaryUp,
  \* app/admin-security/page.tsx : AdminSecurityPage component state, the
  \* loadSecurityData requests in flight, the auto-refresh interval, and what
  \* started the loads of the latest step
  isLoggedIn, autoRefresh, loadsInFlight, intervalArmed, adminConnectionStatus,
  loadStarts

apiVars == <<apiPc, apiCaller, apiMessage, apiRetries, attempt, lastError,
             signalAborted, fetchCalls, netRequests, waits, response,
             chatResult, tierLog, apiThrew, lastReply, secondaryReply>>
routeVars == <<routePc, routeBody, routeLog, routeResp>>
pageVars == <<messages, input, isLoading, isSystemBlocked, securityAlerts,
              threatLevel, isAnalyzing, sendPc, sendInput, sendBlocked,
              lastSend, chatRequests, securityAnalysis>>
adminVars == <<systemState, mockAlerts, userActivities, adminResp>>
analyzeVars == <<analyzePc, analyzeReq, analyzeResp, threatResults, threatVerdict>>
chatPageVars == <<chatMessages, chatInput, chatIsLoading, chatLastSend,
                  connectionStatus, showConnectionAlert, mounted, probes, primaryUp,
                  secondaryUp>>
adminPageVars == <<isLoggedIn, autoRefresh, loadsInFlight, intervalArmed,
                   adminConnectionStatus, loadStarts>>
vars == <<apiVars, routeVars, pageVars, adminVars, analyzeVars, chatPageVars,
          adminPageVars>>

\* ------------------------------------------------------------ user texts
\* A text is a sequence of words; toLowerCase works word by word and
\* String.includes(k) holds when some lower-cased word contains k.
Words == {"Quels", "TARIFS", "prix", "Features", "fonctionnalité", "Bonjour",
          "hello", "aide", "TeamSquare"}

ToLowerCase(w) ==
  CASE w = "Quels" -> "quels"
    [] w = "TARIFS" -> "tarifs"
    [] w = "Features" -> "features"
    [] w = "Bonjour" -> "bonjour"
    [] w = "TeamSquare" -> "teamsquare"
    [] OTHER -> w

\* the keywords a lower-case word contains as a substring
SubstringsOf(w) ==
  CASE w = "tarifs" -> {"tarif"}
    [] w = "prix" -> {"prix"}
    [] w = "features" -> {"feature"}
    [] w = "fonctionnalité" -> {"fonctionnalité", "fonction"}
    [] w = "bonjour" -> {"bonjour"}
    [] w = "hello" -> {"hello"}
    [] w = "teamsquare" -> {"teamsquare"}
    [] OTHER -> {}

Includes(text, k) == \E i \in 1..Len(text) : k \in SubstringsOf(text[i])
LowerText(text) == [i \in 1..Len(text) |-> ToLowerCase(text[i])]

Texts == { <<"Quels", "TARIFS">>, <<"prix", "Features">>, <<"fonctionnalité">>,
           <<"Bonjour">>, <<"aide">>, <<"TeamSquare">> }

\* ------------------------------------------------------------ HTTP replies
\* What a fetch can produce: a 2xx reply whose body parses to an object with
\* content, to an object without content, to null, or does not parse; a
\* non-2xx status; a network error; the abort of the timeout signal.
Replies ==
  [kind : {"ok"}, status : {200}, body : {"content", "no_content", "null", "unparseable"}]
  \cup [kind : {"http"}, status : {404, 500}, body : {"none"}]
  \cup [kind : {"network_error", "timeout"}, status : {0}, body : {"none"}]

NoReply == [kind |-> "none", status |-> 0, body |-> "none"]
NoValue == [success |-> FALSE, data |-> "none", error |-> "none", source |-> "none"]

\* ================================================== lib/api-config.ts
\* Error.message of the error a failed attempt raises (lines 68-82)
ErrorMessage(reply) ==
  CASE reply.kind = "http" /\ reply.status = 404 -> "HTTP 404: Not Found"
    [] reply.kind = "http" /\ reply.status = 500 -> "HTTP 500: Internal Server Error"
    [] reply.kind = "network_error" -> "fetch failed"
    [] reply.kind = "timeout" -> "The operation was aborted due to timeout"
    [] reply.kind = "ok" /\ reply.body = "unparseable" -> "Unexpected token < in JSON"
    [] OTHER -> ""

\* response.ok and response.json() resolves
ReplySucceeds(reply) == reply.kind = "ok" /\ reply.body # "unparseable"

\* the try of the retry loop encloses fetch, the status test and json()
\* (variant: json() is read outside the try)
CatchesNoParseError(reply) == ~(reply.kind = "ok" /\ reply.body = "unparseable")
ApiCallCatches(reply) == TRUE

\* catch: lastError = error (the latest error replaces the previous one;
\* variant: the first error is kept)
KeepFirstError(prev, reply) == IF prev = "null" THEN ErrorMessage(reply) ELSE prev
CatchLastError(prev, reply) == ErrorMessage(reply)

\* lastError?.message || "Unknown error"
FailureError(err) == IF err = "null" \/ err = "" THEN "Unknown error" ELSE err

\* if (attempt < finalConfig.retries) await setTimeout(retryDelay)
\* (variant: it waits after the last attempt too)
WaitsEvenAfterLast(a, r) == a <= r
WaitsBeforeRetry(a, r) == a < r

\* for (...; attempt <= finalConfig.retries; ...)
LoopContinues(a, r) == a <= r

ApiSuccess(reply) ==
  [success |-> TRUE, data |-> reply.body, error |-> "none", source |-> "backend"]
ApiFailure(err) ==
  [success |-> FALSE, data |-> "none", error |-> FailureError(err), source |-> "backend"]

\* generateLocalChatResponse: first matching rule on the lower-cased text
GenerateLocalChatResponse(message) ==
  LET messageLower == LowerText(message) IN
  IF Includes(messageLower, "prix") \/ Includes(messageLower, "tarif") THEN "pricing"
  ELSE IF Includes(messageLower, "fonctionnalité") \/ Includes(messageLower, "feature")
       THEN "features"
  ELSE IF Includes(messageLower, "bonjour") \/ Includes(messageLower, "hello")
       THEN "greeting"
  ELSE "generic"

FallbackSuccess(reply) ==
  [success |-> TRUE, data |-> reply.body, error |-> "none", source |-> "fallback"]
\* (variant: the local response keeps the tag of apiCall)
LocalTaggedBackend(message) ==
  [success |-> TRUE, data |-> GenerateLocalChatResponse(message), error |-> "none",
   source |-> "backend"]
LocalSuccess(message) ==
  [success |-> TRUE, data |-> GenerateLocalChatResponse(message), error |-> "none",
   source |-> "local"]

\* history of one send: a tier is tried, then it succeeds or fails
Tried(tier) == [tier |-> tier, ev |-> "try"]
Ended(tier, ok) == [tier |-> tier, ev |-> IF ok THEN "ok" ELSE "fail"]

\* apiCall(endpoint, options, config) called directly, or through chatApiCall
\* (which passes no config): lines 47-61, up to the loop
ApiStart(caller, r, message) ==
  /\ apiPc \in {"idle", "done"}
  /\ caller = "chatApiCall" => r = DefaultRetries
  /\ apiCaller' = caller
  /\ apiMessage' = message
  /\ apiRetries' = r
  /\ attempt' = 0
  /\ lastError' = "null"
  /\ signalAborted' = FALSE
  /\ fetchCalls' = 0
  /\ netRequests' = 0
  /\ waits' = 0
  /\ response' = NoValue
  /\ chatResult' = NoValue
  /\ apiThrew' = FALSE
  /\ lastReply' = NoReply
  /\ secondaryReply' = NoReply
  /\ tierLog' = <<>>
  /\ apiPc' = "loop"
  /\ UNCHANGED <<routeVars, pageVars, adminVars, analyzeVars, chatPageVars, adminPageVars>>

\* AbortSignal.timeout(finalConfig.timeout), created once before the loop
\* (line 58), fires while the call is running
ApiTimeoutFires ==
  /\ apiPc \in {"inflight", "wait"}
  /\ ~signalAborted
  /\ signalAborted' = TRUE
  /\ UNCHANGED <<apiPc, apiCaller, apiMessage, apiRetries, attempt, lastError,
                 fetchCalls, netRequests, waits, response, chatResult, tierLog,
                 apiThrew, lastReply, secondaryReply>>
  /\ UNCHANGED <<routeVars, pageVars, adminVars, analyzeVars, chatPageVars, adminPageVars>>

\* variant: chatApiCall goes on to the secondary endpoint whatever resp is
AfterApiCallNoShortCircuit(resp, log) ==
  IF apiCaller = "apiCall"
    THEN /\ apiPc' = "done"
         /\ chatResult' = chatResult
         /\ tierLog' = log
    ELSE /\ apiPc' = "secondary"
         /\ chatResult' = chatResult
         /\ tierLog' = Append(log, Tried("secondary"))

\* the code after apiCall has returned resp to its caller: a direct caller is
\* done; chatApiCall returns a successful resp and otherwise calls the
\* secondary endpoint (lines 114-128, 152)
AfterApiCall(resp, log) ==
  IF apiCaller = "apiCall" \/ resp.success
    THEN /\ apiPc' = "done"
         /\ chatResult' = IF apiCaller = "chatApiCall" THEN resp ELSE chatResult
         /\ tierLog' = log
    ELSE /\ apiPc' = "secondary"
         /\ chatResult' = chatResult
         /\ tierLog' = Append(log, Tried("secondary"))

\* the loop test (line 64): the next fetch is issued, or the loop is left and
\* the failure is returned (lines 93-98).  A fetch on an already aborted
\* signal rejects at once and sends nothing.
ApiLoop ==
  /\ apiPc = "loop"
  /\ IF LoopContinues(attempt, apiRetries)
       THEN /\ fetchCalls' = fetchCalls + 1
            /\ netRequests' = IF signalAborted THEN netRequests ELSE netRequests + 1
            /\ apiPc' = "inflight"
            /\ tierLog' = Append(tierLog, Tried("primary"))
            /\ UNCHANGED <<response, chatResult>>
       ELSE /\ response' = ApiFailure(lastError)
            /\ AfterApiCall(ApiFailure(lastError), tierLog)
            /\ UNCHANGED <<fetchCalls, netRequests>>
  /\ UNCHANGED <<apiCaller, apiMessage, apiRetries, attempt, lastError, signalAborted,
                 waits, apiThrew, lastReply, secondaryReply>>
  /\ UNCHANGED <<routeVars, pageVars, adminVars, analyzeVars, chatPageVars, adminPageVars>>

\* one attempt ends (lines 68-89): success returns, a failure is caught
ApiFetchReply(reply) ==
  /\ apiPc = "inflight"
  /\ (reply.kind = "timeout") <=> signalAborted
  /\ lastReply' = reply
  /\ UNCHANGED <<apiCaller, apiMessage, apiRetries, signalAborted, fetchCalls,
                 netRequests, waits, secondaryReply>>
  /\ IF ReplySucceeds(reply)
       THEN /\ response' = ApiSuccess(reply)
            /\ AfterApiCall(ApiSuccess(reply), Append(tierLog, Ended("primary", TRUE)))
            /\ UNCHANGED <<attempt, lastError, apiThrew>>
       ELSE IF ~ApiCallCatches(reply)
         THEN /\ apiThrew' = TRUE
              /\ apiPc' = "done"
              /\ UNCHANGED <<attempt, lastError, response, chatResult, tierLog>>
         ELSE /\ lastError' = CatchLastError(lastError, reply)
              /\ IF WaitsBeforeRetry(attempt, apiRetries)
                   THEN /\ apiPc' = "wait"
                        /\ attempt' = attempt
                   ELSE /\ apiPc' = "loop"
                        /\ attempt' = attempt + 1
              /\ tierLog' = Append(tierLog, Ended("primary", FALSE))
              /\ UNCHANGED <<response, chatResult, apiThrew>>
  /\ UNCHANGED <<routeVars, pageVars, adminVars, analyzeVars, chatPageVars, adminPageVars>>

\* the retryDelay timer resolves (line 87); attempt++
ApiRetryDelayElapsed ==
  /\ apiPc = "wait"
  /\ waits' = waits + 1
  /\ attempt' = attempt + 1
  /\ apiPc' = "loop"
  /\ UNCHANGED <<apiCaller, apiMessage, apiRetries, lastError, signalAborted,
                 fetchCalls, netRequests, response, chatResult, tierLog, apiThrew,
                 lastReply, secondaryReply>>
  /\ UNCHANGED <<routeVars, pageVars, adminVars, analyzeVars, chatPageVars, adminPageVars>>

\* the secondary call of chatApiCall ends (lines 130-149): a 2xx reply that
\* parses is returned as 'fallback'; a non-2xx reply falls through and an
\* exception is caught, both ending in the local response
ChatSecondaryReply(reply) ==
  /\ apiPc = "secondary"
  /\ IF ReplySucceeds(reply)
       THEN /\ chatResult' = FallbackSuccess(reply)
            /\ tierLog' = Append(tierLog, Ended("secondary", TRUE))
       ELSE /\ chatResult' = LocalSuccess(apiMessage)
            /\ tierLog' = tierLog \o <<Ended("secondary", FALSE), Tried("local"),
                                       Ended("local", TRUE)>>
  /\ apiPc' = "done"
  /\ secondaryReply' = reply
  /\ UNCHANGED <<apiCaller, apiMessage, apiRetries, attempt, lastError, signalAborted,
                 fetchCalls, netRequests, waits, response, apiThrew, lastReply>>
  /\ UNCHANGED <<routeVars, pageVars, adminVars, analyzeVars, chatPageVars, adminPageVars>>

\* ================================================== app/api/chat/route.ts
\* request bodies: JSON that does not parse, null, an object without message,
\* with an empty message, with a non-string message, or with a text
RouteBodies ==
  [kind : {"unparseable", "null", "no_message", "empty_message", "number_message"},
   message : {<<>>}]
  \cup [kind : {"text"}, message : Texts]

NoResp == [status |-> 0, source |-> "none", content |-> "none"]

\* (variant: the feature rule is tested before the pricing rule)
FeaturesBeforePricing(query) ==
  LET queryLower == LowerText(query) IN
  IF Includes(queryLower, "fonctionnalité") \/ Includes(queryLower, "feature")
     \/ Includes(queryLower, "fonction") THEN "features"
  ELSE IF Includes(queryLower, "prix") \/ Includes(queryLower, "tarif")
          \/ Includes(queryLower, "coût") THEN "pricing"
  ELSE IF Includes(queryLower, "bonjour") \/ Includes(queryLower, "salut")
          \/ Includes(queryLower, "hello") THEN "greeting"
  ELSE IF Includes(queryLower, "teamsquare") \/ Includes(queryLower, "team square")
       THEN "about"
  ELSE "generic"

\* generateLocalResponse: keyword rules on the lower-cased query (the generic
\* template also quotes the query as it was typed)
GenerateLocalResponse(query) ==
  LET queryLower == LowerText(query) IN
  IF Includes(queryLower, "prix") \/ Includes(queryLower, "tarif")
     \/ Includes(queryLower, "coût") THEN "pricing"
  ELSE IF Includes(queryLower, "fonctionnalité") \/ Includes(queryLower, "feature")
          \/ Includes(queryLower, "fonction") THEN "features"
  ELSE IF Includes(queryLower, "bonjour") \/ Includes(queryLower, "salut")
          \/ Includes(queryLower, "hello") THEN "greeting"
  ELSE IF Includes(queryLower, "teamsquare") \/ Includes(queryLower, "team square")
       THEN "about"
  ELSE "generic"

LocalResponse(query) ==
  [status |-> 200, source |-> "local_fallback", content |-> GenerateLocalResponse(query)]

\* the primary reply is usable: response.ok, json() resolves, data is an
\* object and data.content is defined (lines 1052-1069)
PrimaryUsable(reply) == reply.kind = "ok" /\ reply.body = "content"

\* the reply of the secondary is returned by tryFallbackAPI: fallbackResponse.ok,
\* json() resolves and reading fallbackData.content does not throw
SecondaryReturned(reply) == reply.kind = "ok" /\ reply.body \in {"content", "no_content"}

\* POST(request): lines 1013-1050, up to the fetch of the primary backend
RoutePost(body) ==
  /\ routePc = "idle"
  /\ routeBody' = body
  /\ IF body.kind \in {"unparseable", "null", "number_message"}
       THEN \* request.json() or body.message?.substring(...) throws: outer catch
            /\ routeResp' = [status |-> 500, source |-> "error_handler",
                             content |-> "technical_problem"]
            /\ routeLog' = <<>>
            /\ routePc' = "idle"
       ELSE IF body.kind \in {"no_message", "empty_message"}
         THEN /\ routeResp' = [status |-> 400, source |-> "validation",
                               content |-> "invalid_message"]
              /\ routeLog' = <<>>
              /\ routePc' = "idle"
         ELSE /\ routeResp' = NoResp
              /\ routeLog' = <<Tried("primary")>>
              /\ routePc' = "primary"
  /\ UNCHANGED <<apiVars, pageVars, adminVars, analyzeVars, chatPageVars, adminPageVars>>

\* the primary backend answers (lines 1052-1087): a usable reply is returned,
\* anything else goes to tryFallbackAPI, which fetches the secondary endpoint
RoutePrimaryReply(reply) ==
  /\ routePc = "primary"
  /\ IF PrimaryUsable(reply)
       THEN /\ routeResp' = [status |-> 200, source |-> "agentic_agent",
                             content |-> "backend_content"]
            /\ routeLog' = Append(routeLog, Ended("primary", TRUE))
            /\ routePc' = "idle"
       ELSE /\ routeResp' = routeResp
            /\ routeLog' = routeLog \o <<Ended("primary", FALSE), Tried("secondary")>>
            /\ routePc' = "secondary"
  /\ UNCHANGED <<routeBody>>
  /\ UNCHANGED <<apiVars, pageVars, adminVars, analyzeVars, chatPageVars, adminPageVars>>

\* tryFallbackAPI after its fetch (lines 1121-1139)
RouteSecondaryReply(reply) ==
  /\ routePc = "secondary"
  /\ IF SecondaryReturned(reply)
       THEN /\ routeResp' = [status |-> 200, source |-> "fallback_api",
                             content |-> IF reply.body = "content"
                                         THEN "fallback_content" ELSE "undefined"]
            /\ routeLog' = Append(routeLog, Ended("secondary", TRUE))
       ELSE /\ routeResp' = LocalResponse(routeBody.message)
            /\ routeLog' = routeLog \o <<Ended("secondary", FALSE), Tried("local"),
                                         Ended("local", TRUE)>>
  /\ routePc' = "idle"
  /\ UNCHANGED <<routeBody>>
  /\ UNCHANGED <<apiVars, pageVars, adminVars, analyzeVars, chatPageVars, adminPageVars>>

\* ================================================== app/page.tsx (Home)
\* contents of the input box: empty, blanks only, or a text
PageInputs == {<<>>, <<" ">>, <<"Bonjour">>}

\* !input.trim()
IsBlank(text) == \A i \in 1..Len(text) : text[i] = " "

\* what POST /api/cybersecurity/analyze can answer: the three results of an
\* analysis (a result may be missing), confidences in hundredths
VulnerabilityResults ==
  { [type |-> "absent", confidence |-> 0], [type |-> "SAFE", confidence |-> 95],
    [type |-> "XSS", confidence |-> 85], [type |-> "PATH_TRAVERSAL", confidence |-> 80] }
NetworkResults ==
  { [type |-> "NORMAL", confidence |-> 90], [type |-> "DDOS", confidence |-> 88],
    [type |-> "PORT_SCAN", confidence |-> 85] }
IntentResults ==
  { [type |-> "Legitimate", confidence |-> 80], [type |-> "Malicious", confidence |-> 75],
    [type |-> "Malicious", confidence |-> 50] }
NoResult == [type |-> "absent", confidence |-> 0]
AnalysisReplies ==
  [kind : {"ok"}, vulnerability : VulnerabilityResults, network : NetworkResults,
   intent : IntentResults]
  \cup [kind : {"http", "network_error", "unparseable"}, vulnerability : {NoResult},
        network : {NoResult}, intent : {NoResult}]

Alert(type, severity) == [type |-> type, severity |-> severity]

\* (variant: a malicious intent raises no alert)
AlertsWithoutIntent(a) ==
  IF a.kind # "ok" THEN <<>>
  ELSE
    (IF a.vulnerability.type \notin {"absent", "SAFE"}
       THEN <<Alert("vulnerability",
                    IF a.vulnerability.confidence > 80 THEN "critical" ELSE "high")>>
       ELSE <<>>)
    \o (IF a.network.type \notin {"absent", "NORMAL"}
          THEN <<Alert("network", IF a.network.type = "DDOS" THEN "critical" ELSE "high")>>
          ELSE <<>>)

\* (variant: a failed analysis raises a critical alert)
FailsClosed(a) ==
  IF a.kind # "ok" THEN <<Alert("analysis", "critical")>>
  ELSE
    (IF a.vulnerability.type \notin {"absent", "SAFE"}
       THEN <<Alert("vulnerability",
                    IF a.vulnerability.confidence > 80 THEN "critical" ELSE "high")>>
       ELSE <<>>)
    \o (IF a.network.type \notin {"absent", "NORMAL"}
          THEN <<Alert("network", IF a.network.type = "DDOS" THEN "critical" ELSE "high")>>
          ELSE <<>>)
    \o (IF a.intent.type = "Malicious"
          THEN <<Alert("intent", IF a.intent.confidence > 50 THEN "high" ELSE "medium")>>
          ELSE <<>>)

\* analyzeMessageSecurity (lines 373-431): the alerts, in the order pushed
AnalysisAlerts(a) ==
  IF a.kind # "ok" THEN <<>>
  ELSE
    (IF a.vulnerability.type \notin {"absent", "SAFE"}
       THEN <<Alert("vulnerability",
                    IF a.vulnerability.confidence > 80 THEN "critical" ELSE "high")>>
       ELSE <<>>)
    \o (IF a.network.type \notin {"absent", "NORMAL"}
          THEN <<Alert("network", IF a.network.type = "DDOS" THEN "critical" ELSE "high")>>
          ELSE <<>>)
    \o (IF a.intent.type = "Malicious"
          THEN <<Alert("intent", IF a.intent.confidence > 50 THEN "high" ELSE "medium")>>
          ELSE <<>>)

\* handleThreatDetected: if (alert.severity === "critical")
BlocksOnHighToo(alert) == alert.severity \in {"critical", "high"}
BlocksSystem(alert) == alert.severity = "critical"

\* handleSendMessage: securityCheck.alerts.some(a => a.severity === "critical")
CriticalThreat(alerts) == \E i \in 1..Len(alerts) : alerts[i].severity = "critical"

\* handleSend: if (!input.trim() || isLoading || isSystemBlocked) return
SendRefused(inp, loading, blocked) == IsBlank(inp) \/ loading \/ blocked

Message(sender, content) == [sender |-> sender, content |-> content]

RECURSIVE Reverse(_)
Reverse(seq) == IF seq = <<>> THEN <<>> ELSE Append(Reverse(Tail(seq)), Head(seq))

\* the security messages handleThreatDetected appends, one per blocking alert
SecurityMessages(alerts) ==
  LET blocking == SelectSeq(alerts, BlocksSystem)
  IN [i \in 1..Len(blocking) |-> Message("security", "security_alert")]

\* onChange of the input box: setInput(e.target.value)
SetInput(v) ==
  /\ input' = v
  /\ UNCHANGED <<messages, isLoading, isSystemBlocked, securityAlerts, threatLevel,
                 isAnalyzing, sendPc, sendInput, sendBlocked, lastSend, chatRequests,
                 securityAnalysis>>
  /\ UNCHANGED <<apiVars, routeVars, adminVars, analyzeVars, chatPageVars, adminPageVars>>

\* handleSend up to the fetch of analyzeMessageSecurity (lines 510-524, 360-371);
\* lastSend records what the latest call did (isLoading is false exactly when
\* no send is running, so an accepted call finds sendPc = "idle")
HandleSend ==
  /\ IF SendRefused(input, isLoading, isSystemBlocked)
       THEN /\ lastSend' = IF isSystemBlocked /\ ~IsBlank(input) THEN "ignored_blocked"
                           ELSE "ignored"
            /\ UNCHANGED <<messages, input, isLoading, isAnalyzing, sendPc, sendInput,
                           sendBlocked>>
       ELSE /\ Len(messages) + 4 <= MaxMessages
            /\ sendPc = "idle"
            /\ lastSend' = "accepted"
            /\ messages' = Append(messages, Message("user", input))
            /\ input' = <<>>
            /\ isLoading' = TRUE
            /\ isAnalyzing' = TRUE
            /\ sendPc' = "analyzing"
            /\ sendInput' = input
            /\ sendBlocked' = isSystemBlocked
  /\ UNCHANGED <<isSystemBlocked, securityAlerts, threatLevel, chatRequests,
                 securityAnalysis>>
  /\ UNCHANGED <<apiVars, routeVars, adminVars, analyzeVars, chatPageVars, adminPageVars>>

\* the end of handleSend once handleSendMessage has returned `content`
\* (lines 526-539)
FinishSend(msgs, content) ==
  /\ messages' = Append(msgs, Message("assistant", content))
  /\ isLoading' = FALSE
  /\ sendPc' = "idle"

\* securityCheck.analysis: the parsed answer (line 376), or null when the
\* call threw or answered non-2xx (line 431)
SecurityCheckAnalysis(a) == IF a.kind = "ok" THEN "analysis" ELSE "null"

\* the analysis answers: rest of analyzeMessageSecurity, then handleSendMessage
\* up to its fetch of /api/chat or its return (lines 373-492, 503-506)
PageAnalysisReply(a) ==
  /\ sendPc = "analyzing"
  /\ isAnalyzing' = FALSE
  /\ securityAnalysis' = SecurityCheckAnalysis(a)
  /\ LET alerts == AnalysisAlerts(a)
         blocks == \E i \in 1..Len(alerts) : BlocksSystem(alerts[i])
         msgs == messages \o SecurityMessages(alerts)
     IN /\ securityAlerts' = Reverse(alerts) \o securityAlerts
        /\ isSystemBlocked' = (isSystemBlocked \/ blocks)
        /\ threatLevel' = IF blocks THEN "danger" ELSE threatLevel
        /\ IF CriticalThreat(alerts)
             THEN /\ FinishSend(msgs, "security_block")
                  /\ UNCHANGED chatRequests
             ELSE IF ~sendBlocked
               THEN /\ sendPc' = "chatting"
                    /\ chatRequests' = chatRequests + 1
                    /\ messages' = msgs
                    /\ UNCHANGED isLoading
               ELSE /\ FinishSend(msgs, "security_mode")
                    /\ UNCHANGED chatRequests
  /\ UNCHANGED <<input, sendInput, sendBlocked, lastSend>>
  /\ UNCHANGED <<apiVars, routeVars, adminVars, analyzeVars, chatPageVars, adminPageVars>>

\* /api/chat answers (lines 494-506), then the end of handleSend: a 2xx body
\* is returned as it is, and reading .content of null throws into the catch
\* of handleSend, which appends nothing
PageChatReply(reply) ==
  /\ sendPc = "chatting"
  /\ reply.kind # "timeout"
  /\ IF reply.kind = "ok" /\ reply.body = "null"
       THEN /\ isLoading' = FALSE
            /\ sendPc' = "idle"
            /\ UNCHANGED messages
       ELSE FinishSend(messages,
              IF reply.kind = "ok" /\ reply.body = "content" THEN "reply_content"
              ELSE IF reply.kind = "ok" /\ reply.body = "no_content" THEN "undefined"
              ELSE "security_mode")
  /\ UNCHANGED <<input, isSystemBlocked, securityAlerts, threatLevel, isAnalyzing,
                 sendInput, sendBlocked, lastSend, chatRequests, securityAnalysis>>
  /\ UNCHANGED <<apiVars, routeVars, adminVars, analyzeVars, chatPageVars, adminPageVars>>

\* ======================================= app/api/admin-security/route.ts
\* last_scan, a timestamp that no handler reads, is left out
InitialSystemState ==
  [blocked |-> FALSE, threat_level |-> "safe", active_threats |-> <<>>,
   models_status |-> [vulnerability_classifier |-> "active", network_analyzer |-> "active",
                      intent_classifier |-> "active"]]

AdminAlert(id, type, severity) == [id |-> id, type |-> type, severity |-> severity]

\* alert_001 .. alert_003 (ids 101..103; generated ids are clock values)
InitialAlerts ==
  << AdminAlert(101, "vulnerability", "critical"), AdminAlert(102, "intent", "high"),
     AdminAlert(103, "network", "medium") >>

\* threat scores in tenths
InitialUserActivities ==
  << [session_id |-> "user_123", threat_score |-> 8, blocked |-> TRUE],
     [session_id |-> "user_456", threat_score |-> 9, blocked |-> TRUE],
     [session_id |-> "user_789", threat_score |-> 1, blocked |-> FALSE] >>

Max(a, b) == IF a >= b THEN a ELSE b

\* readings of Date.now(), from which the ids of new alerts are made: two
\* requests may read the same millisecond
ClockReadings == {0, 1}

\* what the backend block/unblock endpoint does to the fetch of the handler
BackendReplies == {"resolves", "rejects"}

\* POST bodies
AdminPostBodies ==
  [action : {"login"}, credentials : {"valid", "invalid"}, type : {"none"},
   severity : {"none"}]
  \cup [action : {"block_system", "unblock_system", "generate_report", "unknown",
                  "unparseable"},
        credentials : {"none"}, type : {"none"}, severity : {"none"}]
  \cup [action : {"add_alert"}, credentials : {"none"}, type : {"none"},
        severity : {"none"}]

\* the response of a handler: its HTTP status (0: the handler returned nothing)
Resp(method, status) == [method |-> method, status |-> status]

\* case "block_system": the local state after the backend call (lines 676-677)
BlockSystemState(st) == [st EXCEPT !.blocked = TRUE, !.threat_level = "danger"]

\* case "unblock_system": lines 712-714
UnblockKeepsThreatLevel(st) == [st EXCEPT !.blocked = FALSE, !.active_threats = <<>>]
UnblockSystemState(st) ==
  [st EXCEPT !.blocked = FALSE, !.threat_level = "safe", !.active_threats = <<>>]

\* (variant: the score of every user is lowered)
UnblockLowersAll(users) ==
  [i \in 1..Len(users) |->
     [users[i] EXCEPT !.blocked = FALSE,
                      !.threat_score = Max(1, users[i].threat_score - 3)]]

\* case "unblock_system": userActivities.forEach (lines 717-722)
UnblockUsers(users) ==
  [i \in 1..Len(users) |->
     IF users[i].blocked
       THEN [users[i] EXCEPT !.blocked = FALSE,
                             !.threat_score = Max(1, users[i].threat_score - 3)]
       ELSE users[i]]

\* POST(request) of the admin route (lines 639-787)
\* (backend and t are read by block_system, unblock_system and add_alert only)
AdminPost(body, backend, t) ==
  /\ body.action \notin {"block_system", "unblock_system"} => backend = "resolves"
  /\ ~(body.action = "add_alert" \/ (body.action = "block_system" /\ backend = "resolves"))
       => t = 0
  /\ CASE body.action = "unparseable" ->
            /\ adminResp' = Resp("POST", 500)
            /\ UNCHANGED <<systemState, mockAlerts, userActivities>>
       [] body.action = "login" ->
            /\ adminResp' = Resp("POST", IF body.credentials = "valid" THEN 200 ELSE 401)
            /\ UNCHANGED <<systemState, mockAlerts, userActivities>>
       [] body.action = "block_system" ->
            IF backend = "rejects"
              THEN /\ adminResp' = Resp("POST", 500)
                   /\ UNCHANGED <<systemState, mockAlerts, userActivities>>
              ELSE /\ Len(mockAlerts) < MaxAlerts
                   /\ systemState' = BlockSystemState(systemState)
                   /\ mockAlerts' = <<AdminAlert(t, "system", "critical")>> \o mockAlerts
                   /\ adminResp' = Resp("POST", 200)
                   /\ UNCHANGED userActivities
       [] body.action = "unblock_system" ->
            IF backend = "rejects"
              THEN /\ adminResp' = Resp("POST", 500)
                   /\ UNCHANGED <<systemState, mockAlerts, userActivities>>
              ELSE /\ systemState' = UnblockSystemState(systemState)
                   /\ userActivities' = UnblockUsers(userActivities)
                   /\ adminResp' = Resp("POST", 200)
                   /\ UNCHANGED mockAlerts
       [] body.action = "generate_report" ->
            /\ adminResp' = Resp("POST", 200)
            /\ UNCHANGED <<systemState, mockAlerts, userActivities>>
       [] body.action = "add_alert" ->
            /\ Len(mockAlerts) < MaxAlerts
            /\ mockAlerts' =
                 <<AdminAlert(t, IF body.type = "none" THEN "vulnerability" ELSE body.type,
                              IF body.severity = "none" THEN "medium" ELSE body.severity)>>
                 \o mockAlerts
            /\ adminResp' = Resp("POST", 200)
            /\ UNCHANGED <<systemState, userActivities>>
       [] OTHER ->
            /\ adminResp' = Resp("POST", 400)
            /\ UNCHANGED <<systemState, mockAlerts, userActivities>>
  /\ UNCHANGED <<apiVars, routeVars, pageVars, analyzeVars, chatPageVars, adminPageVars>>

\* PUT bodies: { config_type, settings }; an optional value is <<>> or <<v>>
NoSettings ==
  [defined |-> FALSE, models_status |-> "none", threat_level |-> "none",
   session_id |-> "none", blocked |-> <<>>, threat_score |-> <<>>]
Settings == [NoSettings EXCEPT !.defined = TRUE]
AdminPutBodies ==
  [config_type : {"unparseable", "unknown", "models", "threat_level", "user_session"},
   settings : {NoSettings, Settings}]
  \cup [config_type : {"models"},
        settings : {[Settings EXCEPT !.models_status = "inactive"]}]
  \cup [config_type : {"threat_level"},
        settings : {[Settings EXCEPT !.threat_level = l] : l \in {"safe", "warning", "danger"}}]
  \cup [config_type : {"user_session"},
        settings : {[Settings EXCEPT !.session_id = u, !.blocked = b, !.threat_score = sc] :
                      u \in {"user_789", "nobody"}, b \in {<<TRUE>>, <<>>},
                      sc \in {<<5>>}}]

\* case "user_session" (lines 883-892)
UpdateUserSession(users, settings) ==
  IF settings.session_id # "none" /\ settings.blocked # <<>>
    THEN [i \in 1..Len(users) |->
            IF users[i].session_id = settings.session_id
                 /\ \A j \in 1..(i - 1) : users[j].session_id # settings.session_id
              THEN [users[i] EXCEPT
                      !.blocked = settings.blocked[1],
                      !.threat_score = IF settings.threat_score # <<>>
                                       THEN settings.threat_score[1] ELSE @]
              ELSE users[i]]
    ELSE users

\* PUT(request) of the admin route (lines 865-914)
AdminPut(body) ==
  /\ IF body.config_type = "unparseable"
       THEN /\ adminResp' = Resp("PUT", 500)
            /\ UNCHANGED <<systemState, userActivities>>
       ELSE IF body.config_type = "unknown"
         THEN /\ adminResp' = Resp("PUT", 400)
              /\ UNCHANGED <<systemState, userActivities>>
         ELSE IF ~body.settings.defined
           THEN \* reading a property of undefined throws: catch
                /\ adminResp' = Resp("PUT", 500)
                /\ UNCHANGED <<systemState, userActivities>>
           ELSE /\ adminResp' = Resp("PUT", 200)
                /\ CASE body.config_type = "models" ->
                          /\ systemState' =
                               IF body.settings.models_status # "none"
                                 THEN [systemState EXCEPT
                                         !.models_status.vulnerability_classifier =
                                            body.settings.models_status]
                                 ELSE systemState
                          /\ UNCHANGED userActivities
                     [] body.config_type = "threat_level" ->
                          /\ systemState' =
                               IF body.settings.threat_level # "none"
                                 THEN [systemState EXCEPT
                                         !.threat_level = body.settings.threat_level]
                                 ELSE systemState
                          /\ UNCHANGED userActivities
                     [] OTHER ->
                          /\ userActivities' = UpdateUserSession(userActivities, body.settings)
                          /\ UNCHANGED systemState
  /\ UNCHANGED mockAlerts
  /\ UNCHANGED <<apiVars, routeVars, pageVars, analyzeVars, chatPageVars, adminPageVars>>

\* DELETE queries: ?action=...&alert_id=... (alert_id is <<>> when not given)
AdminDeleteQueries ==
  [action : {"clear_alerts", "reset_system", "unknown"}, alert_id : {<<>>}]
  \cup [action : {"delete_alert"}, alert_id : {<<>>, <<101>>, <<0>>, <<999>>}]

\* case "reset_system": lines 952-968
ResetUsers(users) ==
  [i \in 1..Len(users) |-> [users[i] EXCEPT !.blocked = FALSE, !.threat_score = 1]]

\* DELETE(request) of the admin route (lines 917-986); a handler that leaves
\* the switch by break returns no response (status 0)
AdminDelete(query) ==
  /\ CASE query.action = "clear_alerts" ->
            /\ mockAlerts' = <<>>
            /\ adminResp' = Resp("DELETE", 200)
            /\ UNCHANGED <<systemState, userActivities>>
       [] query.action = "delete_alert" ->
            IF query.alert_id = <<>>
              THEN /\ adminResp' = Resp("DELETE", 0)
                   /\ UNCHANGED <<systemState, mockAlerts, userActivities>>
              ELSE LET kept == SelectSeq(mockAlerts, LAMBDA al : al.id # query.alert_id[1])
                   IN /\ mockAlerts' = kept
                      /\ adminResp' = Resp("DELETE", IF Len(kept) < Len(mockAlerts) THEN 200 ELSE 404)
                      /\ UNCHANGED <<systemState, userActivities>>
       [] query.action = "reset_system" ->
            /\ systemState' = InitialSystemState
            /\ mockAlerts' = <<>>
            /\ userActivities' = ResetUsers(userActivities)
            /\ adminResp' = Resp("DELETE", 200)
       [] OTHER ->
            /\ adminResp' = Resp("DELETE", 400)
            /\ UNCHANGED <<systemState, mockAlerts, userActivities>>
  /\ UNCHANGED <<apiVars, routeVars, pageVars, analyzeVars, chatPageVars, adminPageVars>>

\* GET queries: ?type=... (<<>> when not given, then "all")
AdminGetTypes == {<<>>, <<"alerts">>, <<"users">>, <<"models">>, <<"stats">>, <<"all">>,
                  <<"unknown">>}

\* GET(request) of the admin route (lines 790-862): every type, the unknown
\* ones by the default case, builds its data from the module state and
\* answers it with status 200
AdminGet(type) ==
  /\ adminResp' = Resp("GET", 200)
  /\ UNCHANGED <<systemState, mockAlerts, userActivities>>
  /\ UNCHANGED <<apiVars, routeVars, pageVars, analyzeVars, chatPageVars, adminPageVars>>

\* ================================ app/api/cybersecurity/analyze/route.ts
\* texts sent for analysis: sequences of fragments
AnalyzeTexts ==
  { <<"Bonjour">>, <<"<script>">>, <<"UNION SELECT">>, <<"../">>, <<"DDoS">>,
    <<"port scan">>, <<"hack">>, <<"hack", "exploit">> }

\* the fragments a pattern of `patterns` matches (the regular expressions are
\* case-insensitive, the network tests lower-case the text first)
PatternFragments ==
  [xss |-> {"<script>"}, sql |-> {"UNION SELECT"}, path |-> {"../"},
   ddos |-> {"DDoS"}, port_scan |-> {"port scan"}, brute_force |-> {},
   hack |-> {"hack"}, exploit |-> {"exploit"}, bypass |-> {}, attack |-> {}]

\* patterns.x.some(p => p.test(text)) / text.toLowerCase().indexOf(x) !== -1
Test(text, pattern) == \E i \in 1..Len(text) : text[i] \in PatternFragments[pattern]

AllModels == {"vulnerability_classifier", "network_analyzer", "intent_classifier"}

Result(type, confidence) == [type |-> type, confidence |-> confidence]

\* simulateAnalysis, the three classifiers (lines 125-186); a classifier that
\* is not in `models` leaves no result
SimulateVulnerability(text, models) ==
  IF "vulnerability_classifier" \notin models THEN NoResult
  ELSE IF Test(text, "xss") THEN Result("XSS", 85)
  ELSE IF Test(text, "sql") THEN Result("SQL_INJECTION", 82)
  ELSE IF Test(text, "path") THEN Result("PATH_TRAVERSAL", 80)
  ELSE Result("SAFE", 95)

SimulateNetwork(text, models) ==
  IF "network_analyzer" \notin models THEN NoResult
  ELSE IF Test(text, "ddos") THEN Result("DDOS", 88)
  ELSE IF Test(text, "port_scan") THEN Result("PORT_SCAN", 85)
  ELSE IF Test(text, "brute_force") THEN Result("BRUTE_FORCE", 83)
  ELSE Result("NORMAL", 90)

SimulateIntent(text, models) ==
  LET maliciousCount ==
        Cardinality({p \in {"hack", "exploit", "bypass", "attack"} : Test(text, p)})
  IN IF "intent_classifier" \notin models THEN NoResult
     ELSE IF maliciousCount >= 2 THEN Result("Malicious", 75)
     ELSE IF maliciousCount = 1 THEN Result("Suspicious", 65)
     ELSE Result("Legitimate", 80)

\* threatScore of calculateThreatLevel in thousandths (confidences are in
\* hundredths, the weights 3, 2, 2.5 and 1 in tenths)
ThreatScore(results) ==
  (IF results.vulnerability.type # "SAFE" THEN results.vulnerability.confidence * 30 ELSE 0)
  + (IF results.network.type # "NORMAL" THEN results.network.confidence * 20 ELSE 0)
  + (IF results.intent.type = "Malicious" THEN results.intent.confidence * 25
     ELSE IF results.intent.type = "Suspicious" THEN results.intent.confidence * 10
     ELSE 0)

\* the thresholds of calculateThreatLevel (lines 210-214)
Thresholds(score) ==
  IF score >= 2500 THEN "critical"
  ELSE IF score >= 1500 THEN "high"
  ELSE IF score >= 500 THEN "medium"
  ELSE IF score > 0 THEN "low"
  ELSE "safe"

\* calculateThreatLevel(results): `results.x?.type !== "SAFE"` is true when the
\* result x is missing, and reading results.x.confidence then throws a
\* TypeError; a missing intent result compares unequal and adds nothing
CalculateThreatLevel(results) ==
  IF results.vulnerability.type = "absent" \/ results.network.type = "absent"
    THEN "throws"
    ELSE Thresholds(ThreatScore(results))

\* simulateAnalysis(text, models)
SimulateAnalysis(text, models) ==
  LET results == [vulnerability |-> SimulateVulnerability(text, models),
                  network |-> SimulateNetwork(text, models),
                  intent |-> SimulateIntent(text, models)]
  IN [results |-> results, overall |-> CalculateThreatLevel(results)]

NoResults == [vulnerability |-> NoResult, network |-> NoResult, intent |-> NoResult]

\* request bodies { text, models }: JSON that does not parse, or an object
\* whose text may be empty and whose models may be missing (<<>>) or any list
\* of the three model names (<<list>>)
AnalyzeBodies ==
  [kind : {"unparseable"}, text : {<<>>}, models : {<<>>}]
  \cup [kind : {"json"}, text : AnalyzeTexts \cup {<<>>},
        models : {<<>>} \cup {<<m>> : m \in SUBSET AllModels}]
NoAnalyzeBody == [kind |-> "none", text |-> <<>>, models |-> <<>>]

\* what the Python server answers to POST /analyze
PythonAnalyses ==
  { [results |-> [vulnerability |-> Result("SAFE", 99), network |-> Result("NORMAL", 97),
                  intent |-> Result("Legitimate", 93)], overall |-> "safe"],
    [results |-> [vulnerability |-> Result("XSS", 91), network |-> Result("NORMAL", 97),
                  intent |-> Result("Malicious", 60)], overall |-> "critical"] }
PythonReplies ==
  [kind : {"unreachable", "http", "unparseable"}, results : {NoResults}, overall : {"none"}]
  \cup { [kind |-> "ok", results |-> a.results, overall |-> a.overall] : a \in PythonAnalyses }

AnalyzeResp(status, source, results, overall) ==
  [status |-> status, source |-> source, results |-> results, overall |-> overall]
NoAnalyzeResp == AnalyzeResp(0, "none", NoResults, "none")

\* const { text, models = [all three] } = body
RequestedModels(body) == IF body.models = <<>> THEN AllModels ELSE body.models[1]

\* the catch (pythonError) block (lines 65-77): simulateAnalysis is called
\* inside the catch block, so what it throws reaches the outer catch (500)
SimulationFallback(body) ==
  LET sim == SimulateAnalysis(body.text, RequestedModels(body))
  IN IF sim.overall = "throws"
       THEN AnalyzeResp(500, "error", NoResults, "none")
       ELSE AnalyzeResp(200, "simulation", sim.results, sim.overall)

\* POST(request) of the analyze route up to the fetch of the Python server
\* (lines 20-40)
AnalyzePost(body) ==
  /\ analyzePc = "idle"
  /\ analyzeReq' = body
  /\ IF body.kind = "unparseable"
       THEN /\ analyzeResp' = AnalyzeResp(500, "error", NoResults, "none")
            /\ analyzePc' = "idle"
       ELSE IF body.text = <<>>
         THEN /\ analyzeResp' = AnalyzeResp(400, "error", NoResults, "none")
              /\ analyzePc' = "idle"
         ELSE /\ analyzeResp' = NoAnalyzeResp
              /\ analyzePc' = "python"
  /\ UNCHANGED <<threatResults, threatVerdict>>
  /\ UNCHANGED <<apiVars, routeVars, pageVars, adminVars, chatPageVars, adminPageVars>>

\* the Python server answers, or the fetch fails (lines 42-77)
AnalyzePythonReply(py) ==
  /\ analyzePc = "python"
  /\ analyzeResp' = IF py.kind = "ok"
                      THEN AnalyzeResp(200, "python_models", py.results, py.overall)
                      ELSE SimulationFallback(analyzeReq)
  /\ analyzePc' = "idle"
  /\ UNCHANGED <<analyzeReq, threatResults, threatVerdict>>
  /\ UNCHANGED <<apiVars, routeVars, pageVars, adminVars, chatPageVars, adminPageVars>>

\* results handed to calculateThreatLevel: each result may be missing
ThreatInputs ==
  [vulnerability : {NoResult, Result("SAFE", 95), Result("XSS", 85), Result("XSS", 50)},
   network : {NoResult, Result("NORMAL", 90), Result("DDOS", 88), Result("DDOS", 25)},
   intent : {NoResult, Result("Legitimate", 80), Result("Malicious", 100),
             Result("Suspicious", 65), Result("Suspicious", 1)}]

\* one call of calculateThreatLevel(results)
CalculateThreatLevelCall(results) ==
  /\ threatResults' = results
  /\ threatVerdict' = CalculateThreatLevel(results)
  /\ UNCHANGED <<analyzePc, analyzeReq, analyzeResp>>
  /\ UNCHANGED <<apiVars, routeVars, pageVars, adminVars, chatPageVars, adminPageVars>>

\* ============================================ app/chat/page.tsx (Home)
\* lastCheck, a timestamp that is only displayed, is left out
ChatInputs == {<<>>, <<"Bonjour">>}

\* onChange of the input box
SetChatInput(v) ==
  /\ chatInput' = v
  /\ UNCHANGED <<chatMessages, chatIsLoading, chatLastSend, connectionStatus,
                 showConnectionAlert, mounted, probes, primaryUp, secondaryUp>>
  /\ UNCHANGED <<apiVars, routeVars, pageVars, adminVars, analyzeVars, adminPageVars>>

\* handleSend: if (!input.trim() || isLoading) return
RefusesOnlyBlank(inp, loading) == IsBlank(inp)
ChatSendRefused(inp, loading) == IsBlank(inp) \/ loading

\* handleSend up to its fetch of /api/chat (lines 108-130); isLoading is true
\* exactly while the request is outstanding
ChatHandleSend ==
  /\ IF ChatSendRefused(chatInput, chatIsLoading)
       THEN /\ chatLastSend' = "ignored"
            /\ UNCHANGED <<chatMessages, chatInput, chatIsLoading>>
       ELSE /\ Len(chatMessages) + 2 <= MaxMessages
            /\ chatLastSend' = "accepted"
            /\ chatMessages' = Append(chatMessages, Message("user", chatInput))
            /\ chatInput' = <<>>
            /\ chatIsLoading' = TRUE
  /\ UNCHANGED <<connectionStatus, showConnectionAlert, mounted, probes, primaryUp,
                 secondaryUp>>
  /\ UNCHANGED <<apiVars, routeVars, pageVars, adminVars, analyzeVars, adminPageVars>>

\* response.ok and data.content could be read (lines 132-136): the body is a
\* JSON value other than null
ChatReplyRead(reply) == reply.kind = "ok" /\ reply.body \in {"content", "no_content"}

\* the messages handleSend appends once its fetch is settled: the assistant
\* message (lines 135-147) or the error message of the catch (lines 160-172)
SilentOnError(reply) ==
  IF ChatReplyRead(reply)
    THEN <<Message("assistant", IF reply.body = "content" THEN "reply_content"
                                ELSE "undefined")>>
    ELSE <<>>
ChatReplyMessages(reply) ==
  IF ChatReplyRead(reply)
    THEN <<Message("assistant", IF reply.body = "content" THEN "reply_content"
                                ELSE "undefined")>>
    ELSE <<Message("assistant", "connection_error")>>

\* /api/chat answers, or the fetch fails (lines 132-175); the fetch carries no
\* timeout signal
ChatSendReply(reply) ==
  /\ chatIsLoading
  /\ reply.kind # "timeout"
  /\ chatMessages' = chatMessages \o ChatReplyMessages(reply)
  /\ showConnectionAlert' = ~ChatReplyRead(reply)
  /\ chatIsLoading' = FALSE
  /\ UNCHANGED <<chatInput, chatLastSend, connectionStatus, mounted, probes, primaryUp,
                 secondaryUp>>
  /\ UNCHANGED <<apiVars, routeVars, pageVars, adminVars, analyzeVars, adminPageVars>>

\* GET of the chat route (part_012 lines 1228-1257) for the backend's answer
\* to /api/agentic/health; fallback_available is <<>> when the field is missing
HealthGet(backend) ==
  IF ReplySucceeds(backend)
    THEN [ok |-> TRUE, code |-> 200, status |-> "healthy", fallback_available |-> <<>>]
    ELSE [ok |-> FALSE, code |-> 503, status |-> "degraded", fallback_available |-> <<TRUE>>]

\* how the fetch of checkConnection ends: GET /api/chat answers for some
\* answer of the backend, or the fetch itself fails (network error, 5 s timeout)
HealthOutcomes ==
  [kind : {"answered"}, backend : Replies]
  \cup [kind : {"failed"}, backend : {NoReply}]

\* what starts checkConnection: the mount effect, the 60 s interval, the
\* retry button of the banner
Triggers == {"mount", "timer", "retry"}

\* a probe in flight: what started it, and whether the secondary endpoint has
\* been unreachable ever since
Probe(trigger) == [trigger |-> trigger, secondaryDown |-> ~secondaryUp]

\* checkConnection up to its fetch (lines 78-82).  The mount effect runs once;
\* a probe ends within its 5 s timeout, so no probe of the mount or of a tick
\* is still in flight at the next tick 60 s later; the retry button exists
\* while the banner is shown.
CheckConnectionStart(trigger) ==
  /\ Len(probes) < MaxProbes
  /\ CASE trigger = "mount" -> ~mounted
       [] trigger = "timer" ->
            mounted /\ \A i \in 1..Len(probes) : probes[i].trigger = "retry"
       [] OTHER -> mounted /\ showConnectionAlert
  /\ mounted' = TRUE
  /\ probes' = Append(probes, Probe(trigger))
  /\ UNCHANGED <<chatMessages, chatInput, chatIsLoading, chatLastSend, connectionStatus,
                 showConnectionAlert, primaryUp, secondaryUp>>
  /\ UNCHANGED <<apiVars, routeVars, pageVars, adminVars, analyzeVars, adminPageVars>>

RemoveAt(seq, i) == SubSeq(seq, 1, i - 1) \o SubSeq(seq, i + 1, Len(seq))

\* the rest of checkConnection for the probe at position i (lines 84-105)
CheckConnectionEnd(i, o) ==
  /\ i \in 1..Len(probes)
  /\ (o.kind = "answered" /\ ~primaryUp) => o.backend.kind \in {"network_error", "timeout"}
  /\ IF o.kind = "answered"
       THEN LET data == HealthGet(o.backend)
            IN /\ connectionStatus' =
                    [backend |-> (data.status = "healthy" \/ data.ok),
                     fallback |-> (data.fallback_available # <<FALSE>>)]
               /\ showConnectionAlert' = IF data.ok THEN FALSE ELSE showConnectionAlert
       ELSE /\ connectionStatus' = [connectionStatus EXCEPT !.backend = FALSE]
            /\ showConnectionAlert' = TRUE
  /\ probes' = RemoveAt(probes, i)
  /\ UNCHANGED <<chatMessages, chatInput, chatIsLoading, chatLastSend, mounted, primaryUp,
                 secondaryUp>>
  /\ UNCHANGED <<apiVars, routeVars, pageVars, adminVars, analyzeVars, adminPageVars>>

\* the primary backend or the secondary endpoint goes down or comes back
ReachabilityChanges(p, s) ==
  /\ <<p, s>> # <<primaryUp, secondaryUp>>
  /\ primaryUp' = p
  /\ secondaryUp' = s
  /\ probes' = [i \in 1..Len(probes) |->
                  [probes[i] EXCEPT !.secondaryDown = (@ /\ ~s)]]
  /\ UNCHANGED <<chatMessages, chatInput, chatIsLoading, chatLastSend, connectionStatus,
                 showConnectionAlert, mounted>>
  /\ UNCHANGED <<apiVars, routeVars, pageVars, adminVars, analyzeVars, adminPageVars>>

\* ===================================================== specifications
\* ================================= app/admin-security/page.tsx
\* what GET /api/admin-security?type=all does to the fetch of the page: the
\* route answers 200 with system_state, or 500, or the fetch fails or is
\* aborted after 5 seconds
LoadOutcomes == {"ok", "http", "network_error"}

\* the loads a step starts, each recorded with what the step is
Loads(n, cause) == [i \in 1..n |-> cause]

\* the auto-refresh effect (lines 166-176) after a render that changed one of
\* its dependencies: the previous interval is cleared, and if the admin is
\* logged in with auto-refresh on a load is started and a new interval set
EffectLoads(loggedIn, refresh) == IF loggedIn /\ refresh THEN 1 ELSE 0

\* the component after a step that starts `called` loads itself, renders
\* with the state loggedIn / refresh and re-runs the effect; `pending` are
\* the loads still in flight and `cause` is what the step is
Rerender(loggedIn, refresh, pending, called, cause) ==
  LET started == called + EffectLoads(loggedIn, refresh) IN
  /\ Len(pending) + started <= MaxLoads
  /\ isLoggedIn' = loggedIn
  /\ autoRefresh' = refresh
  /\ loadsInFlight' = pending \o Loads(started, cause)
  /\ intervalArmed' = (loggedIn /\ refresh)
  /\ loadStarts' = IF started > 0 THEN {cause} ELSE {}
  /\ adminConnectionStatus' = IF started > 0 THEN TRUE ELSE adminConnectionStatus

\* handleLogin, the login being accepted (lines 192-197): setIsLoggedIn(true)
\* and await loadSecurityData(); the render then runs the effect
AdminLoginSucceeds ==
  /\ ~isLoggedIn
  /\ Rerender(TRUE, autoRefresh, loadsInFlight, 1, "login")
  /\ UNCHANGED <<apiVars, routeVars, pageVars, adminVars, analyzeVars, chatPageVars>>

\* handleLogout (lines 209-213)
AdminLogout ==
  /\ isLoggedIn
  /\ Rerender(FALSE, autoRefresh, loadsInFlight, 0, "logout")
  /\ UNCHANGED <<apiVars, routeVars, pageVars, adminVars, analyzeVars, chatPageVars>>

\* the auto-refresh button, rendered once logged in (line 521)
ToggleAutoRefresh ==
  /\ isLoggedIn
  /\ Rerender(isLoggedIn, ~autoRefresh, loadsInFlight, 0, "auto_refresh_on")
  /\ UNCHANGED <<apiVars, routeVars, pageVars, adminVars, analyzeVars, chatPageVars>>

\* the 3-second interval fires (lines 169-172): no state changes, no render
IntervalTick ==
  /\ intervalArmed
  /\ Len(loadsInFlight) < MaxLoads
  /\ loadsInFlight' = Append(loadsInFlight, "tick")
  /\ loadStarts' = {"tick"}
  /\ adminConnectionStatus' = TRUE
  /\ UNCHANGED <<isLoggedIn, autoRefresh, intervalArmed>>
  /\ UNCHANGED <<apiVars, routeVars, pageVars, adminVars, analyzeVars, chatPageVars>>

\* the i-th loadSecurityData in flight ends (lines 114-134): on a 2xx answer
\* setSystemStatus(data.system_state) stores a new object, which makes a new
\* loadSecurityData (useCallback on [systemStatus], line 135) and so re-runs
\* the effect that depends on it; otherwise setConnectionStatus(false)
LoadSecurityDataEnds(i, outcome) ==
  /\ i \in 1..Len(loadsInFlight)
  /\ IF outcome = "ok"
       THEN Rerender(isLoggedIn, autoRefresh, RemoveAt(loadsInFlight, i), 0,
                     "load_completed")
       ELSE /\ loadsInFlight' = RemoveAt(loadsInFlight, i)
            /\ loadStarts' = {}
            /\ adminConnectionStatus' = FALSE
            /\ UNCHANGED <<isLoggedIn, autoRefresh, intervalArmed>>
  /\ UNCHANGED <<apiVars, routeVars, pageVars, adminVars, analyzeVars, chatPageVars>>

\* handleBlockSystem / handleUnblockSystem, the route having answered 2xx
\* (lines 227-231, 247-251): setSystemStatus(data.system_state) and
\* await loadSecurityData()
AdminPageSystemAction ==
  /\ isLoggedIn
  /\ Rerender(isLoggedIn, autoRefresh, loadsInFlight, 1, "system_action")
  /\ UNCHANGED <<apiVars, routeVars, pageVars, adminVars, analyzeVars, chatPageVars>>

Init ==
  /\ apiPc = "idle" /\ apiCaller = "none" /\ apiMessage = <<>> /\ apiRetries = 0
  /\ attempt = 0 /\ lastError = "null" /\ signalAborted = FALSE
  /\ fetchCalls = 0 /\ netRequests = 0 /\ waits = 0
  /\ response = NoValue /\ chatResult = NoValue /\ tierLog = <<>> /\ apiThrew = FALSE
  /\ lastReply = NoReply /\ secondaryReply = NoReply
  /\ routePc = "idle" /\ routeBody = [kind |-> "null", message |-> <<>>]
  /\ routeLog = <<>> /\ routeResp = NoResp
  /\ messages = <<>> /\ input = <<>> /\ isLoading = FALSE /\ isSystemBlocked = FALSE
  /\ securityAlerts = <<>> /\ threatLevel = "safe" /\ isAnalyzing = FALSE
  /\ sendPc = "idle" /\ sendInput = <<>> /\ sendBlocked = FALSE /\ lastSend = "none"
  /\ chatRequests = 0 /\ securityAnalysis = "none"
  /\ systemState = InitialSystemState /\ mockAlerts = InitialAlerts
  /\ userActivities = InitialUserActivities
  /\ adminResp = Resp("none", 0)
  /\ analyzePc = "idle" /\ analyzeReq = NoAnalyzeBody /\ analyzeResp = NoAnalyzeResp
  /\ threatResults = NoResults /\ threatVerdict = "none"
  /\ chatMessages = <<>> /\ chatInput = <<>> /\ chatIsLoading = FALSE
  /\ chatLastSend = "none"
  /\ connectionStatus = [backend |-> TRUE, fallback |-> TRUE]
  /\ showConnectionAlert = FALSE /\ mounted = FALSE /\ probes = <<>>
  /\ primaryUp = TRUE /\ secondaryUp = TRUE
  /\ isLoggedIn = FALSE /\ autoRefresh = TRUE /\ loadsInFlight = <<>>
  /\ intervalArmed = FALSE /\ adminConnectionStatus = TRUE /\ loadStarts = {}

\* the client pipeline and the chat route
NextChat ==
  \/ \E c \in {"apiCall", "chatApiCall"}, r \in 0..MaxRetries, m \in Texts : ApiStart(c, r, m)
  \/ ApiLoop
  \/ ApiTimeoutFires
  \/ \E reply \in Replies : ApiFetchReply(reply)
  \/ ApiRetryDelayElapsed
  \/ \E reply \in Replies : ChatSecondaryReply(reply)
  \/ \E body \in RouteBodies : RoutePost(body)
  \/ \E reply \in Replies : RoutePrimaryReply(reply)
  \/ \E reply \in Replies : RouteSecondaryReply(reply)
Spec == Init /\ [][NextChat]_vars

\* the chat page, with the admin unblocking the system
UnblockBody ==
  [action |-> "unblock_system", credentials |-> "none", type |-> "none", severity |-> "none"]
BlockBody ==
  [action |-> "block_system", credentials |-> "none", type |-> "none", severity |-> "none"]
AdminUnblock == \E b \in BackendReplies, t \in ClockReadings : AdminPost(UnblockBody, b, t)
AdminBlock == \E b \in BackendReplies, t \in ClockReadings : AdminPost(BlockBody, b, t)
NextPage ==
  \/ \E v \in PageInputs : SetInput(v)
  \/ HandleSend
  \/ \E a \in AnalysisReplies : PageAnalysisReply(a)
  \/ \E reply \in Replies : PageChatReply(reply)
  \/ AdminUnblock
SpecPage == Init /\ [][NextPage]_vars

\* the admin route (all the requests fall in one millisecond)
NextAdmin ==
  \/ \E body \in AdminPostBodies, b \in BackendReplies : AdminPost(body, b, 0)
  \/ \E body \in AdminPutBodies : AdminPut(body)
  \/ \E q \in AdminDeleteQueries : AdminDelete(q)
  \/ \E type \in AdminGetTypes : AdminGet(type)
SpecAdmin == Init /\ [][NextAdmin]_vars

\* the admin blocking and unblocking the system while the chat route serves
NextBlock ==
  \/ AdminBlock
  \/ AdminUnblock
  \/ \E body \in RouteBodies : RoutePost(body)
  \/ \E reply \in Replies : RoutePrimaryReply(reply)
  \/ \E reply \in Replies : RouteSecondaryReply(reply)
SpecBlock == Init /\ [][NextBlock]_vars

\* ============================================================ properties
TierRank(tier) == CASE tier = "primary" -> 1 [] tier = "secondary" -> 2 [] OTHER -> 3

\* the tiers of one send were tried in the order primary, secondary, local,
\* one at a time, each only after the failure of the one before, and nothing
\* was tried after a success
TierOrder(log) ==
  /\ log # <<>> => log[1] = Tried("primary")
  /\ \A i \in 1..Len(log) :
       /\ \A j \in i..Len(log) : TierRank(log[i].tier) <= TierRank(log[j].tier)
       /\ (log[i].ev = "try" /\ i < Len(log)) =>
            /\ log[i + 1].tier = log[i].tier
            /\ log[i + 1].ev \in {"ok", "fail"}
       /\ log[i].ev = "ok" => i = Len(log)
       /\ (log[i].ev = "try" /\ i > 1) => log[i - 1].ev = "fail"
       /\ log[i] = Tried("secondary") => (i > 1 /\ log[i - 1] = Ended("primary", FALSE))
       /\ log[i] = Tried("local") => (i > 1 /\ log[i - 1] = Ended("secondary", FALSE))
  /\ Cardinality({i \in 1..Len(log) : log[i] = Tried("secondary")}) <= 1
  /\ Cardinality({i \in 1..Len(log) : log[i] = Tried("local")}) <= 1

\* C1: in chatApiCall and in POST /api/chat the tiers are tried strictly in
\* the order primary, secondary, local synthesis, one at a time; the secondary
\* is called only after the primary has failed, local synthesis runs only
\* after both have failed, and no tier is tried after a success.
C1_TiersInOrder == TierOrder(tierLog) /\ TierOrder(routeLog)

\* both pipelines have gone through the three tiers
C1_Witness ==
  /\ apiCaller = "chatApiCall" /\ apiPc = "done"
  /\ \E i \in 1..Len(tierLog) : tierLog[i] = Tried("local")
  /\ routePc = "idle"
  /\ \E i \in 1..Len(routeLog) : routeLog[i] = Tried("local")

Parseable2xx(reply) == reply.kind = "ok" /\ reply.body # "unparseable"
ChatReturned == apiCaller = "chatApiCall" /\ apiPc = "done" /\ ~apiThrew
PrimaryFailed ==
  /\ ~Parseable2xx(lastReply)
  /\ Cardinality({i \in 1..Len(tierLog) : tierLog[i] = Ended("primary", FALSE)})
       = apiRetries + 1

\* C2: the source of the value chatApiCall returns is 'backend' only if a
\* primary attempt returned 2xx with a parseable body, 'fallback' only if the
\* primary failed and the secondary returned 2xx with a parseable body, and
\* 'local' only if both failed; exactly one of the three holds.
C2_SourceMatchesTier ==
  ChatReturned =>
    /\ chatResult.source \in {"backend", "fallback", "local"}
    /\ chatResult.source = "backend" <=>
         (Parseable2xx(lastReply) /\ secondaryReply = NoReply)
    /\ chatResult.source = "fallback" <=>
         (PrimaryFailed /\ Parseable2xx(secondaryReply))
    /\ chatResult.source = "local" <=>
         (PrimaryFailed /\ secondaryReply # NoReply /\ ~Parseable2xx(secondaryReply))

\* a send answered by the secondary after the primary failed on every attempt
C2_Witness ==
  /\ ChatReturned /\ chatResult.source = "fallback"
  /\ fetchCalls = DefaultRetries + 1

LocalTemplates == {"pricing", "features", "greeting", "generic"}

\* C3: for every combination of outcomes of the primary attempts and of the
\* secondary call, chatApiCall resolves without throwing and with
\* success = true, and when both remote tiers fail the result carries the
\* locally synthesized content.
C3_AlwaysDisplayable ==
  apiCaller = "chatApiCall" =>
    /\ ~apiThrew
    /\ apiPc = "done" =>
         /\ chatResult.success
         /\ (~Parseable2xx(lastReply) /\ ~Parseable2xx(secondaryReply)) =>
              chatResult.data \in LocalTemplates

\* the primary ended on an unparseable body, the secondary timed out, and the
\* pricing template came back
C3_Witness ==
  /\ ChatReturned
  /\ lastReply.kind = "ok" /\ lastReply.body = "unparseable"
  /\ secondaryReply.kind = "timeout"
  /\ chatResult.success /\ chatResult.data = "pricing"

ApiReturned == response # NoValue
PrimaryEvents == SelectSeq(tierLog, LAMBDA e : e.tier = "primary")

\* C9: apiCall with retries = r issues at most r+1 requests; request k+1 is
\* issued only after request k failed and the retryDelay wait has elapsed; no
\* request is issued after a 2xx reply with a parseable body; when every
\* attempt fails it has issued exactly r+1 requests and waited exactly r times.
C9_BoundedRetries ==
  /\ fetchCalls <= apiRetries + 1
  /\ apiPc = "inflight" => waits = fetchCalls - 1
  /\ waits <= fetchCalls
  /\ \A i \in 1..Len(PrimaryEvents) :
       /\ (PrimaryEvents[i].ev = "try" /\ i > 1) => PrimaryEvents[i - 1].ev = "fail"
       /\ PrimaryEvents[i].ev = "ok" => i = Len(PrimaryEvents)
  /\ (ApiReturned /\ response.success) => apiPc \notin {"loop", "inflight", "wait"}
  /\ (ApiReturned /\ ~response.success) =>
       (fetchCalls = apiRetries + 1 /\ waits = apiRetries)

\* a direct call with the largest retry count fails on every attempt
C9_Witness ==
  /\ apiCaller = "apiCall" /\ apiRetries = MaxRetries
  /\ ApiReturned /\ ~response.success
  /\ fetchCalls = MaxRetries + 1 /\ waits = MaxRetries

\* C10: apiCall never throws to its caller: a timeout, a network error, a
\* non-2xx status and an unparseable 2xx body are each turned into a failed
\* attempt, and when all attempts fail the result is success = false whose
\* error is the message of the last attempt's error.
C10_LastErrorReturned ==
  /\ ~apiThrew
  /\ (apiPc \in {"wait", "loop"} /\ lastReply # NoReply) => ~Parseable2xx(lastReply)
  /\ (ApiReturned /\ ~Parseable2xx(lastReply)) =>
       /\ ~response.success
       /\ response.error = ErrorMessage(lastReply)
       /\ response.error # ""

\* after at least one retry the last attempt got an unparseable body, and its
\* message is the one returned
C10_Witness ==
  /\ ApiReturned /\ ~response.success /\ apiRetries >= 1
  /\ tierLog # <<>> /\ lastError = "Unexpected token < in JSON"
  /\ response.error = "Unexpected token < in JSON"
  /\ lastReply.body = "unparseable"

\* a handleSend call made with a non-empty input while the system is blocked
BlockedSendCall == isSystemBlocked /\ ~IsBlank(input) /\ HandleSend

\* C4: in app/page.tsx, once isSystemBlocked is true no handleSend call reaches
\* the transport: no request to /api/chat is issued or in flight while the
\* system is blocked, and a call made while it is blocked issues none.
C4_NoChatWhileBlocked ==
  /\ isSystemBlocked => sendPc # "chatting"
  /\ lastSend = "ignored_blocked" => (isSystemBlocked /\ sendPc = "idle")

\* handleSend was called with a non-empty input while blocked, after the one
\* send that raised the critical alert, and that send made no request
C4_Witness ==
  /\ isSystemBlocked /\ lastSend = "ignored_blocked" /\ ~IsBlank(input)
  /\ chatRequests = 0 /\ ~isLoading

\* C5: every handleSend call with a non-empty input made while
\* isSystemBlocked is true appends a fixed assistant message to the transcript.
C5_BlockedSendAnswered ==
  [][BlockedSendCall =>
       (Len(messages') = Len(messages) + 1
        /\ messages'[Len(messages')] = Message("assistant", "security_mode"))]_vars

\* the admin unblock action succeeds
AdminUnblockDone == AdminUnblock /\ adminResp'.status = 200

\* C7: a block caused by a critical alert lasts until an admin unblocks:
\* isSystemBlocked stays true until then, and after an admin unblock action
\* isSystemBlocked is false.
C7_BlockedUntilAdminUnblock ==
  [][/\ (isSystemBlocked /\ ~AdminUnblockDone) => isSystemBlocked'
     /\ AdminUnblockDone => ~isSystemBlocked']_vars

\* a chat request received while the admin state is blocked
BlockedChatRequest ==
  systemState.blocked /\ \E body \in RouteBodies : (body.kind = "text" /\ RoutePost(body))

\* C6: after block_system has set systemState.blocked, POST /api/chat makes no
\* call to the primary backend or to the secondary endpoint for any request
\* received until an unblock action.
C6_BlockedChatNotForwarded ==
  [][BlockedChatRequest => (routePc' = "idle" /\ routeLog' = <<>>)]_vars

\* DELETE ?action=reset_system
AdminReset == AdminDelete([action |-> "reset_system", alert_id |-> <<>>])

\* blocked changes from true to false
BlockedCleared == systemState.blocked /\ ~systemState'.blocked

\* C8 (as stated): over any sequence of POST, PUT and DELETE requests to the
\* admin route, blocked changes from true to false only through the
\* unblock_system action, and right after that action threat_level is "safe".
C8_OnlyUnblockClears ==
  [][/\ BlockedCleared => AdminUnblockDone
     /\ AdminUnblockDone => (~systemState'.blocked /\ systemState'.threat_level = "safe")]_vars

\* C8 (amended): blocked changes from true to false only through POST
\* unblock_system or DELETE reset_system, and right after either of them the
\* system is unblocked with threat_level "safe".
C8_UnblockOrResetClears ==
  [][/\ BlockedCleared => (AdminUnblockDone \/ AdminReset)
     /\ (AdminUnblockDone \/ AdminReset)
          => (~systemState'.blocked /\ systemState'.threat_level = "safe")]_vars

\* the system was blocked (the block alert is still listed) and then unblocked
\* by unblock_system (user_123, blocked at start, was released with its score
\* lowered from 0.8 to 0.5)
C8_Witness ==
  /\ ~systemState.blocked /\ systemState.threat_level = "safe"
  /\ \E i \in 1..Len(mockAlerts) : mockAlerts[i].type = "system"
  /\ userActivities[1] = [session_id |-> "user_123", threat_score |-> 5, blocked |-> FALSE]
  /\ adminResp = Resp("POST", 200)

\* the loop of apiCall issues a fetch
AttemptIssued == ApiLoop /\ apiPc' = "inflight"

\* C11: each transport call issued by apiCall carries its own timeout signal:
\* an attempt is issued on a signal that has not expired (a timeout during an
\* earlier attempt aborts that attempt only), so it reaches the server and is
\* not ended by a timeout that fired before it started.
C11_OwnTimeoutPerAttempt ==
  [][AttemptIssued => (~signalAborted' /\ netRequests' = netRequests + 1)]_vars

\* C12: POST /api/chat treats a 2xx reply whose body lacks the content field
\* as a failure of that tier, for the primary and for the secondary alike:
\* every 200 response returned for a valid message carries a defined content,
\* and a tier recorded as successful did not answer without content.
C12_MalformedReplyDegrades ==
  (routePc = "idle" /\ routeBody.kind = "text" /\ routeResp.status = 200)
    => routeResp.content # "undefined"

\* the keyword groups of generateLocalChatResponse and of generateLocalResponse
ChatKeywords ==
  [pricing |-> {"prix", "tarif"}, features |-> {"fonctionnalité", "feature"},
   greeting |-> {"bonjour", "hello"}]
RouteKeywords ==
  [pricing |-> {"prix", "tarif", "coût"},
   features |-> {"fonctionnalité", "feature", "fonction"},
   greeting |-> {"bonjour", "salut", "hello"}]
AboutKeywords == {"teamsquare", "team square"}

\* the lower-cased text contains a keyword of the group
Matches(text, group) == \E k \in group : Includes(LowerText(text), k)

\* the template chosen by the first matching rule in the order pricing,
\* features, greeting, then `rest`
FirstMatch(text, kw, rest) ==
  IF Matches(text, kw.pricing) THEN "pricing"
  ELSE IF Matches(text, kw.features) THEN "features"
  ELSE IF Matches(text, kw.greeting) THEN "greeting"
  ELSE rest

\* a local reply has been synthesized by chatApiCall / by the chat route
ChatLocalReply == ChatReturned /\ chatResult.source = "local"
RouteLocalReply == routePc = "idle" /\ routeResp.source = "local_fallback"

\* C13 (as stated): both local synthesizers choose the template by the first
\* matching rule in exactly the order pricing, features, greeting, generic
\* fallback; in particular a text matching none of the three keyword groups
\* gets the generic template.
C13_FourRulesInOrder ==
  /\ ChatLocalReply => chatResult.data = FirstMatch(apiMessage, ChatKeywords, "generic")
  /\ RouteLocalReply => routeResp.content = FirstMatch(routeBody.message, RouteKeywords, "generic")

\* C13 (amended): both local synthesizers choose the template by the first
\* matching rule in the order pricing, features, greeting; for a text matching
\* none of the three groups generateLocalChatResponse gives the generic
\* template, and generateLocalResponse gives the TeamSquare presentation when
\* the text contains "teamsquare" or "team square" and the generic template
\* otherwise.
C13_RulesInOrder ==
  /\ ChatLocalReply => chatResult.data = FirstMatch(apiMessage, ChatKeywords, "generic")
  /\ RouteLocalReply =>
       routeResp.content =
         FirstMatch(routeBody.message, RouteKeywords,
                    IF Matches(routeBody.message, AboutKeywords) THEN "about" ELSE "generic")

\* both synthesizers have answered a text that holds a pricing keyword and a
\* feature keyword, with the pricing template
C13_Witness ==
  /\ ChatLocalReply /\ RouteLocalReply
  /\ Matches(apiMessage, ChatKeywords.pricing) /\ Matches(apiMessage, ChatKeywords.features)
  /\ Matches(routeBody.message, RouteKeywords.pricing)
  /\ Matches(routeBody.message, RouteKeywords.features)
  /\ chatResult.data = "pricing" /\ routeResp.content = "pricing"

\* the analyze route, and calculateThreatLevel on its own
NextAnalyze ==
  \/ \E body \in AnalyzeBodies : AnalyzePost(body)
  \/ \E py \in PythonReplies : AnalyzePythonReply(py)
  \/ \E results \in ThreatInputs : CalculateThreatLevelCall(results)
SpecAnalyze == Init /\ [][NextAnalyze]_vars

\* the chat page with its health monitor
NextHealth ==
  \/ \E v \in ChatInputs : SetChatInput(v)
  \/ ChatHandleSend
  \/ \E reply \in Replies : ChatSendReply(reply)
  \/ \E trigger \in Triggers : CheckConnectionStart(trigger)
  \/ \E i \in 1..MaxProbes, o \in HealthOutcomes : CheckConnectionEnd(i, o)
  \/ \E p \in BOOLEAN, s \in BOOLEAN : ReachabilityChanges(p, s)
SpecHealth == Init /\ [][NextHealth]_vars

\* the level the weighted score stands for
LevelOf(score) ==
  CASE score >= 2500 -> "critical"
    [] score < 2500 /\ score >= 1500 -> "high"
    [] score < 1500 /\ score >= 500 -> "medium"
    [] score < 500 /\ score > 0 -> "low"
    [] OTHER -> "safe"

\* C14: calculateThreatLevel maps the weighted score s of the detected
\* categories (vulnerability x3 + network x2 + intent x2.5 when Malicious or
\* x1 when Suspicious) to critical if s >= 2.5, else high if s >= 1.5, else
\* medium if s >= 0.5, else low if s > 0, else safe.
C14_ScoreToLevel ==
  threatVerdict # "none" => threatVerdict = LevelOf(ThreatScore(threatResults))

\* the analyze route has answered a request with a non-empty text without the
\* Python server's analysis
AnsweredWithoutPython ==
  /\ analyzePc = "idle" /\ analyzeReq.kind = "json" /\ analyzeReq.text # <<>>
  /\ analyzeResp.source # "python_models"

\* C15: whenever the Python server is unreachable or answers non-2xx, POST
\* /api/cybersecurity/analyze answers 200 with the simulated results, source
\* 'simulation' and an overall_threat_level, for every non-empty text and
\* every list of requested models.
C15_SimulationFallback ==
  AnsweredWithoutPython =>
    /\ analyzeResp.status = 200 /\ analyzeResp.source = "simulation"
    /\ analyzeResp.overall \in {"critical", "high", "medium", "low", "safe"}

\* the body analyzeMessageSecurity posts for the message being sent
PageAnalyzeBody == [kind |-> "json", text |-> sendInput, models |-> <<AllModels>>]

\* what the page reads from a response of the analyze route
AsAnalysisReply(resp) ==
  [kind |-> IF resp.status = 200 THEN "ok" ELSE "http",
   vulnerability |-> resp.results.vulnerability, network |-> resp.results.network,
   intent |-> resp.results.intent]

\* the route receives the request of the page
PageAnalyzeRequest == sendPc = "analyzing" /\ AnalyzePost(PageAnalyzeBody)

\* the page receives the response of the route to its request (the route
\* keeps no state: what it has answered to this body answers this request)
PageAnalysisArrives ==
  /\ analyzePc = "idle" /\ analyzeReq = PageAnalyzeBody /\ analyzeResp # NoAnalyzeResp
  /\ PageAnalysisReply(AsAnalysisReply(analyzeResp))

\* messages typed in the page with security integration
SecurityInputs == {<<>>, <<"Bonjour">>, <<"<script>">>, <<"DDoS">>, <<"port scan">>,
                   <<"hack">>, <<"hack", "exploit">>}

\* the page with security integration in front of the analyze route
NextSecurity ==
  \/ \E v \in SecurityInputs : SetInput(v)
  \/ HandleSend
  \/ PageAnalyzeRequest
  \/ \E py \in PythonReplies : AnalyzePythonReply(py)
  \/ PageAnalysisArrives
  \/ \E reply \in Replies : PageChatReply(reply)
SpecSecurity == Init /\ [][NextSecurity]_vars

\* the page receives a simulated analysis
SimulatedAnalysisArrives == analyzeResp.source = "simulation" /\ PageAnalysisArrives

\* C16: whenever the simulated analysis of a sent message has
\* overall_threat_level critical or high, the page adds at least one alert to
\* securityAlerts for that message; for a text flagged XSS the verdict is
\* critical and an alert of type vulnerability is added.
C16_AlertOnHighVerdict ==
  [][SimulatedAnalysisArrives =>
       LET added == Len(securityAlerts') - Len(securityAlerts) IN
       /\ analyzeResp.overall \in {"critical", "high"} => added >= 1
       /\ Test(sendInput, "xss") =>
            /\ analyzeResp.overall = "critical"
            /\ \E i \in 1..added : securityAlerts'[i].type = "vulnerability"]_vars

\* a message flagged XSS was sent, its simulated analysis was critical and
\* the page holds the vulnerability alert
C16_Witness ==
  /\ sendPc = "idle" /\ lastSend = "accepted" /\ Test(sendInput, "xss")
  /\ analyzeReq = PageAnalyzeBody /\ analyzeResp.source = "simulation"
  /\ analyzeResp.overall = "critical"
  /\ \E i \in 1..Len(securityAlerts) : securityAlerts[i].type = "vulnerability"

\* the largest cap on the alert list that the explored lengths can tell from
\* no cap at all
AlertCap == MaxAlerts - 1

\* C17: the alert list of the admin-security route is capped: after any
\* sequence of add_alert and block_system actions the length of mockAlerts
\* never exceeds a fixed bound.
C17_AlertListCapped == Len(mockAlerts) <= AlertCap

\* C18: health checks of the chat page are not re-entrant: whether it is
\* triggered on mount, by the 60-second timer or by the retry button, a new
\* checkConnection is not started while a previous one has not resolved, so
\* at most one health probe is in flight at any time.
C18_OneProbeInFlight == Len(probes) <= 1

\* a checkConnection call completes
CheckCompletes == \E i \in 1..Len(probes), o \in HealthOutcomes : CheckConnectionEnd(i, o)

\* C19: after every completed checkConnection that sets
\* connectionStatus.backend to false (also when GET /api/chat answers 503
\* with status 'degraded'), showConnectionAlert is true.
C19_BannerWhenBackendDown ==
  [][(CheckCompletes /\ ~connectionStatus'.backend) => showConnectionAlert']_vars

\* a checkConnection call completes that was made while the secondary
\* endpoint was unreachable from its start to its end
CheckCompletesSecondaryDown ==
  \E i \in 1..Len(probes), o \in HealthOutcomes :
    probes[i].secondaryDown /\ CheckConnectionEnd(i, o)

\* C20: after a completed checkConnection made while the secondary endpoint
\* /api/agentic-networkx is unreachable, connectionStatus.fallback is false,
\* whatever the state of the primary.
C20_FallbackProbed ==
  [][CheckCompletesSecondaryDown => ~connectionStatus'.fallback]_vars

\* both chat pages sending messages; the analysis fails, finds nothing or
\* finds an XSS attack
SendAnalyses ==
  { a \in AnalysisReplies :
      a.kind = "ok" => /\ a.vulnerability.type \in {"SAFE", "XSS"}
                       /\ a.network.type = "NORMAL" /\ a.intent.type = "Legitimate" }
NextSend ==
  \/ \E v \in PageInputs : SetInput(v)
  \/ HandleSend
  \/ \E a \in SendAnalyses : PageAnalysisReply(a)
  \/ \E reply \in Replies : PageChatReply(reply)
  \/ \E v \in ChatInputs : SetChatInput(v)
  \/ ChatHandleSend
  \/ \E reply \in Replies : ChatSendReply(reply)
SpecSend == Init /\ [][NextSend]_vars

\* a send of app/page.tsx ends: handleSendMessage has returned or thrown
PageSendEnds == sendPc # "idle" /\ sendPc' = "idle"
\* a send of app/chat/page.tsx ends: its fetch of /api/chat is settled
ChatSendEnds == \E reply \in Replies : ChatSendReply(reply)

\* C21: on both chat pages a handleSend call made while isLoading is true
\* appends no message and issues no request, a request is outstanding only
\* while isLoading is true, and isLoading is false again once the send has
\* ended, whatever the outcome of its request
C21_OneSendAtATime ==
  [][ /\ (HandleSend /\ isLoading) =>
           UNCHANGED <<messages, chatRequests, sendPc, isLoading>>
      /\ (ChatHandleSend /\ chatIsLoading) => UNCHANGED <<chatMessages, chatIsLoading>>
      /\ PageSendEnds => ~isLoading'
      /\ ChatSendEnds => ~chatIsLoading'
      /\ (sendPc' # "idle") => isLoading' ]_vars

\* both pages have refused a send while loading, and the chat page's send has
\* then ended with the error message
C21_Witness ==
  /\ lastSend = "ignored" /\ sendPc = "chatting" /\ isLoading
  /\ chatLastSend = "ignored" /\ ~chatIsLoading
  /\ Len(chatMessages) = 2 /\ chatMessages[2].content = "connection_error"

\* the transcript of the chat page alternates: user, assistant, user, ...
Alternates(msgs) ==
  \A i \in 1..Len(msgs) : msgs[i].sender = IF i % 2 = 1 THEN "user" ELSE "assistant"

\* C22: the transcript of the chat page only changes by one message appended
\* at its end (no message is modified, removed or reordered), and every user
\* message is followed by exactly one assistant message before the next user
\* message: the senders alternate, starting with the user, and outside a send
\* the transcript ends with an assistant message
C22_TranscriptAppendOnly ==
  [][ /\ \/ chatMessages' = chatMessages
          \/ /\ Len(chatMessages') = Len(chatMessages) + 1
             /\ SubSeq(chatMessages', 1, Len(chatMessages)) = chatMessages
      /\ Alternates(chatMessages')
      /\ ~chatIsLoading' => Len(chatMessages') % 2 = 0 ]_vars

\* two sends have ended, the first with the error message and the second
\* with the reply
C22_Witness ==
  /\ Len(chatMessages) = 4 /\ ~chatIsLoading
  /\ chatMessages[2].content = "connection_error"
  /\ chatMessages[4].content = "reply_content"

\* a request to the admin route that carries neither valid admin credentials
\* nor a session token (no handler reads a token, and only the login action
\* reads username and password)
UncredentialedRequest ==
  \/ \E body \in AdminPostBodies, b \in BackendReplies :
        body.credentials # "valid" /\ AdminPost(body, b, 0)
  \/ \E body \in AdminPutBodies : AdminPut(body)
  \/ \E q \in AdminDeleteQueries : AdminDelete(q)

\* C23: a request to the admin route without valid admin credentials or a
\* session token changes nothing: the system state, the alerts and the user
\* activities are as they were before it
C23_SystemActionsValidated ==
  [][UncredentialedRequest => UNCHANGED <<systemState, mockAlerts, userActivities>>]_vars

\* the call to /api/cybersecurity/analyze throws, answers non-2xx or answers
\* a body that cannot be parsed, and handleSendMessage goes on
AnalysisFails == \E a \in AnalysisReplies : a.kind # "ok" /\ PageAnalysisReply(a)

\* C24: in app/page.tsx, when the analysis call fails the message is treated
\* as having no threat: no alert is raised, no security message is shown, the
\* system is not blocked and its threat level is unchanged, and the message
\* is forwarded to /api/chat
C24_SecurityCheckFailsOpen ==
  [][AnalysisFails =>
       /\ securityAlerts' = securityAlerts
       /\ messages' = messages
       /\ ~isSystemBlocked'
       /\ threatLevel' = threatLevel
       /\ sendPc' = "chatting"
       /\ chatRequests' = chatRequests + 1]_vars

\* a message whose analysis failed has been forwarded to /api/chat
C24_Witness ==
  /\ securityAnalysis = "null" /\ sendPc = "chatting" /\ chatRequests = 1
  /\ securityAlerts = <<>> /\ ~isSystemBlocked

\* C25: block_system and unblock_system always update the local state,
\* whether or not the backend can be reached: after block_system blocked is
\* true, after unblock_system blocked is false, and both answer success
C25_LocalStateAlwaysUpdated ==
  [][ /\ AdminBlock => (systemState'.blocked /\ adminResp' = Resp("POST", 200))
      /\ AdminUnblock => (~systemState'.blocked /\ adminResp' = Resp("POST", 200)) ]_vars

\* C26: under the simulated analysis the page blocks the system only on a
\* critical verdict: whenever the arrival of the simulated analysis of a sent
\* message sets isSystemBlocked to true, the overall_threat_level of that
\* analysis is critical
C26_BlocksOnlyOnCritical ==
  [][(SimulatedAnalysisArrives /\ ~isSystemBlocked /\ isSystemBlocked') =>
       analyzeResp.overall = "critical"]_vars

\* C27: in every reachable state of the admin route a blocked system has
\* threat level 'danger'
C27_BlockedImpliesDanger == systemState.blocked => systemState.threat_level = "danger"

\* C28: every request to the admin route gets a response of the handler:
\* whatever the method, the action and the parameters, the status of the
\* latest response is 200, 400, 401, 404 or 500
C28_AlwaysAResponse ==
  adminResp.method # "none" => adminResp.status \in {200, 400, 401, 404, 500}

\* PUT bodies that block or release one user and may set its score
UserSessionBodies ==
  [config_type : {"user_session"},
   settings : {[Settings EXCEPT !.session_id = u, !.blocked = b, !.threat_score = sc] :
                 u \in {"user_789"}, b \in {<<TRUE>>, <<FALSE>>}, sc \in {<<5>>, <<>>}}]

\* the admin blocking and unblocking the system and the users
NextUsers ==
  \/ AdminBlock
  \/ AdminUnblock
  \/ \E body \in UserSessionBodies : AdminPut(body)
  \/ AdminDelete([action |-> "reset_system", alert_id |-> <<>>])
SpecUsers == Init /\ [][NextUsers]_vars

\* block_system / unblock_system has answered success
BlockSucceeds == AdminBlock /\ adminResp' = Resp("POST", 200)
UnblockSucceeds == AdminUnblock /\ adminResp' = Resp("POST", 200)

\* what a successful block_system changes: one alert of type 'system' and
\* severity 'critical' in front of the list, no user activity
BlockFrame ==
  /\ Len(mockAlerts') = Len(mockAlerts) + 1
  /\ Tail(mockAlerts') = mockAlerts
  /\ Head(mockAlerts').type = "system" /\ Head(mockAlerts').severity = "critical"
  /\ userActivities' = userActivities

\* C29 as stated: a successful block_system prepends exactly one
\* system/critical alert and changes no user activity; a successful
\* unblock_system leaves the alerts unchanged, empties active_threats and
\* leaves every user activity with blocked = false and a threat_score
\* lowered by 0.3 but never below 0.1
C29_UnblockLowersEveryScore ==
  [][ /\ BlockSucceeds => BlockFrame
      /\ UnblockSucceeds =>
            /\ mockAlerts' = mockAlerts
            /\ systemState'.active_threats = <<>>
            /\ Len(userActivities') = Len(userActivities)
            /\ \A i \in 1..Len(userActivities) :
                  /\ ~userActivities'[i].blocked
                  /\ userActivities'[i].threat_score =
                       Max(1, userActivities[i].threat_score - 3) ]_vars

\* C29 amended: as above, but unblock_system lowers the threat_score (by 0.3,
\* never below 0.1) of exactly the users that were blocked; the score of a
\* user that was not blocked is unchanged, and nothing else of a user changes
C29_UnblockLowersBlockedScores ==
  [][ /\ BlockSucceeds => BlockFrame
      /\ UnblockSucceeds =>
            /\ mockAlerts' = mockAlerts
            /\ systemState'.active_threats = <<>>
            /\ Len(userActivities') = Len(userActivities)
            /\ \A i \in 1..Len(userActivities) :
                  /\ ~userActivities'[i].blocked
                  /\ userActivities'[i].session_id = userActivities[i].session_id
                  /\ userActivities'[i].threat_score =
                       IF userActivities[i].blocked
                         THEN Max(1, userActivities[i].threat_score - 3)
                         ELSE userActivities[i].threat_score ]_vars

\* the system was blocked (its alert leads the list) and then unblocked:
\* user_123, blocked at 0.8, is unblocked at 0.5, and user_789, not blocked
\* at 0.5, is still at 0.5
C29_Witness ==
  /\ adminResp = Resp("POST", 200) /\ ~systemState.blocked
  /\ Len(mockAlerts) = 4 /\ mockAlerts[1].type = "system"
  /\ userActivities[1].threat_score = 5 /\ ~userActivities[1].blocked
  /\ userActivities[3].threat_score = 5 /\ ~userActivities[3].blocked

\* the admin page with its auto-refresh
NextAdminPage ==
  \/ AdminLoginSucceeds
  \/ AdminLogout
  \/ ToggleAutoRefresh
  \/ IntervalTick
  \/ \E i \in 1..MaxLoads, outcome \in LoadOutcomes : LoadSecurityDataEnds(i, outcome)
  \/ AdminPageSystemAction
SpecAdminPage == Init /\ [][NextAdminPage]_vars

\* a loadSecurityData request in flight ends
LoadEnds == \E i \in 1..MaxLoads, outcome \in LoadOutcomes : LoadSecurityDataEnds(i, outcome)

\* C30: on the admin page a loadSecurityData request is started only at
\* login, when auto-refresh is switched on, and at a tick of the 3-second
\* timer; the completion of a load does not itself start another load
C30_LoadsOnlyOnSchedule ==
  [][ /\ loadStarts' \subseteq {"login", "auto_refresh_on", "tick"}
      /\ LoadEnds => Len(loadsInFlight') = Len(loadsInFlight) - 1 ]_vars
====
